---- MODULE Spec2Model ----
(***************************************************************************)
(* A model of the HTTP ingestion stub server of src/server.go: the Server  *)
(* counters, the Index and Health handlers, and the lifecycle of Listen    *)
(* (signal registration, the shutdown goroutine, WriteSummary, Shutdown).  *)
(*                                                                         *)
(* A request body is a sequence of one-character strings; the byte length  *)
(* of a body is its length.  A handler is a goroutine: every access to a   *)
(* field of the shared Server struct is one step, since the code takes no  *)
(* lock around them (only `healthy` is accessed atomically).               *)
(***************************************************************************)
EXTENDS Integers, Sequences, FiniteSets, TLC

\* ------------------------------------------------------------ bounds
\* Longest request body, in bytes.
MaxLen == 2
\* Requests accepted over the life of the process; each runs in a goroutine
\* of its own, so this is also the number of handlers that can be in flight.
MaxRequests == 2
\* Reports of the ticker goroutine over the life of the process.
MaxReports == 1

\* ------------------------------------------------------------ data
NL == "\n"
Chars == {"a", NL}

\* The content types the switch of Index splits on.
AllowList ==
  {"application/json", "application/ndjson", "application/x-ndjson", "text/plain"}

\* The Content-Type headers requests carry: the four of the switch, one the
\* switch does not name, and "" for a missing header (Header.Get returns "").
ContentTypes == AllowList \cup {"application/xml", ""}

RECURSIVE SeqsUpTo(_)
SeqsUpTo(n) ==
  IF n = 0 THEN {<< >>}
  ELSE LET shorter == SeqsUpTo(n - 1)
       IN shorter \cup {Append(s, c) : s \in {t \in shorter : Len(t) = n - 1}, c \in Chars}

Bodies == SeqsUpTo(MaxLen)

StatusNoContent == 204
StatusBadRequest == 400
StatusServiceUnavailable == 503

\* strings.Split(body, "\n"): the segments between the separators, empty
\* ones included; a body with n separators gives n + 1 segments.
RECURSIVE Split(_)
Split(body) ==
  IF \A i \in 1..Len(body) : body[i] # NL
  THEN << body >>
  ELSE LET i == CHOOSE k \in 1..Len(body) :
                  body[k] = NL /\ \A j \in 1..(k - 1) : body[j] # NL
       IN << SubSeq(body, 1, i - 1) >> \o Split(SubSeq(body, i + 1, Len(body)))

\* The switch with the case of "application/x-ndjson" left out.
MessagesMissingCase(contentType, body) ==
  CASE contentType = "application/json" -> Split(body)
    [] contentType = "application/ndjson" -> Split(body)
    [] contentType = "text/plain" -> Split(body)
    [] OTHER -> << >>

\* The switch with a default case that splits as well.
MessagesDefaultSplits(contentType, body) ==
  Split(body)

\* The switch on contentType: messages stays []string{} unless the content
\* type is one of the four cases.
Messages(contentType, body) ==
  CASE contentType = "application/json" -> Split(body)
    [] contentType = "application/ndjson" -> Split(body)
    [] contentType = "application/x-ndjson" -> Split(body)
    [] contentType = "text/plain" -> Split(body)
    [] OTHER -> << >>

\* The two statuses of Health the wrong way round.
HealthStatusInverted(flag) ==
  IF flag = 1 THEN StatusServiceUnavailable ELSE StatusNoContent

\* The status Health writes for a value of the healthy flag.
HealthStatus(flag) ==
  IF flag = 1 THEN StatusNoContent ELSE StatusServiceUnavailable

\* The readings of time.Now().UnixNano() a request can meet.
Times == {1, 2}

\* The X-Request-Id headers requests carry: "" for a missing header
\* (Header.Get returns ""), an identifier of the client's, and one that looks
\* like a generated one.
InboundIds == {"", "abc", "1"}

\* nextRequestID: fmt.Sprintf("%d", time.Now().UnixNano()), the decimal
\* digits of the clock's reading.
nextRequestID(now) == ToString(now)

\* tracing with the inbound header ignored: an identifier is always generated.
RequestIDAlwaysGenerated(xRequestId, now) ==
  nextRequestID(now)

\* tracing: the inbound X-Request-Id when it is not "", else a generated one.
RequestID(xRequestId, now) ==
  IF xRequestId = "" THEN nextRequestID(now) ELSE xRequestId

\* ------------------------------------------------------------ state
VARIABLES
  \* The fields of the Server struct that handlers write.
  RequestCount, MessageCount, ByteTotal, FirstMessage, LastMessage,
  \* The package-level flag Health reads.
  healthy,
  \* handlers[h]: the goroutine serving request h: where it is (pc), the
  \* request (path, contentType, body), the value it loaded for a
  \* read-modify-write (tmp), whether ReadAll returned an error (err) and
  \* the status it wrote (0: none yet); and, of the middleware, the inbound
  \* X-Request-Id (xRequestId), the identifier tracing put in the request
  \* context (requestID) and the X-Request-Id header of the response (header).
  handlers,
  \* The main goroutine's place in NewServer and Listen.
  mainPc,
  \* The shutdown goroutine's place (lines 55-71).
  sigPc,
  \* The signals signal.Notify has been called for.
  notified,
  \* The net/http server: "unbound", "serving" or "closed"; inShutdown is
  \* what Shutdown sets and ListenAndServe tests.
  listener, inShutdown,
  \* The bytes json.Marshal has produced so far, as the object's members.
  sBytes,
  \* The file at summaryPath: its state is "absent", "stale" (left by an
  \* earlier run), "partial" (a write that failed midway) or "written", with
  \* the object written as its content.
  file,
  \* "running", or how the process ended: "exit0", "exit1", "killed".
  exited,
  \* History: the requests accepted; pre[h], the Server fields when request h
  \* was accepted; and, over the ingestion requests answered so far in the
  \* order they were answered: their number, the sum of their segment counts
  \* and body lengths, the first non-empty segment sent (firstSent), the first
  \* segment of the earliest request that began with a non-empty one
  \* (firstHead) and the final segment of the latest request that ended with a
  \* non-empty one (lastFinal).
  accepted, pre, answered, sumMessages, sumBytes, firstSent, firstHead, lastFinal,
  \* History: whether a signal Notify was called for has been delivered.
  delivered,
  \* History: the values the five fields held together at some moment between
  \* the receipt of the signal and the call of WriteFile, less those the
  \* object being marshalled already differs from.
  moments,
  \* The lines the process logs: the access log of the logging middleware
  \* (each entry with the request it is of) and the reports of the ticker
  \* goroutine.
  accessLog, reportLog

fields == << RequestCount, MessageCount, ByteTotal, FirstMessage, LastMessage >>
life == << healthy, mainPc, sigPc, notified, listener, inShutdown, sBytes, file, exited >>
history ==
  << accepted, pre, answered, sumMessages, sumBytes, firstSent, firstHead, lastFinal,
     delivered >>
logs == << accessLog, reportLog >>
vars == << fields, handlers, life, history, moments, logs >>

Handlers == 1..MaxRequests

\* The Server fields as the summary object names them.
Snapshot ==
  [byte_total |-> ByteTotal, first_message |-> FirstMessage,
   last_message |-> LastMessage, message_count |-> MessageCount,
   request_count |-> RequestCount]

NoSummary ==
  [byte_total |-> 0, first_message |-> << >>, last_message |-> << >>,
   message_count |-> 0, request_count |-> 0]

NoRequest ==
  [pc |-> "idle", path |-> "", contentType |-> "", body |-> << >>, tmp |-> 0,
   err |-> FALSE, status |-> 0, xRequestId |-> "", requestID |-> "", header |-> ""]

Running == exited = "running"

\* A handler between its request's arrival and its connection going idle.
InFlight(h) == handlers[h].pc \notin {"idle", "finished"}

\* The goroutine of the ticker runs from the go statement of Listen on;
\* nothing sends on quit or closes it, so it has no other state.
ReporterRuns == mainPc \in {"store_healthy", "listen", "serving", "returned"}

\* What the history records of a body, computed from the positions of its
\* separators.
Separators(body) == {i \in 1..Len(body) : body[i] = NL}
NumSegments(body) == Cardinality(Separators(body)) + 1
Segment(body, k) ==
  LET before == {i \in Separators(body) : Cardinality({j \in Separators(body) : j <= i}) = k - 1}
      after == {i \in Separators(body) : Cardinality({j \in Separators(body) : j <= i}) = k}
      from == IF before = {} THEN 1 ELSE (CHOOSE i \in before : TRUE) + 1
      to == IF after = {} THEN Len(body) ELSE (CHOOSE i \in after : TRUE) - 1
  IN SubSeq(body, from, to)
FirstNonEmptySegment(body) ==
  LET ks == {k \in 1..NumSegments(body) : Segment(body, k) # << >>}
  IN IF ks = {} THEN << >> ELSE Segment(body, CHOOSE k \in ks : \A j \in ks : k <= j)

Init ==
  /\ RequestCount = 0 /\ MessageCount = 0 /\ ByteTotal = 0
  /\ FirstMessage = << >> /\ LastMessage = << >>
  /\ healthy = 0
  /\ handlers = [h \in Handlers |-> NoRequest]
  /\ mainPc = "new"
  /\ sigPc = "unspawned"
  /\ notified = {}
  /\ listener = "unbound" /\ inShutdown = FALSE
  /\ sBytes = NoSummary
  /\ file \in {[state |-> "absent", content |-> NoSummary],
               [state |-> "stale", content |-> NoSummary]}
  /\ exited = "running"
  /\ accepted = 0
  /\ pre = [h \in Handlers |-> NoSummary]
  /\ answered = 0 /\ sumMessages = 0 /\ sumBytes = 0
  /\ firstSent = << >> /\ firstHead = << >> /\ lastFinal = << >>
  /\ delivered = FALSE
  /\ moments = {}
  /\ accessLog = << >> /\ reportLog = << >>

\* ------------------------------------------------------------ history
\* The members of the summary object json.Marshal has loaded when the
\* shutdown goroutine is at pc.
Loaded(pc) ==
  CASE pc = "ws_byte_total" -> {}
    [] pc = "ws_first_message" -> {"byte_total"}
    [] pc = "ws_last_message" -> {"byte_total", "first_message"}
    [] pc = "ws_message_count" -> {"byte_total", "first_message", "last_message"}
    [] pc = "ws_request_count" ->
         {"byte_total", "first_message", "last_message", "message_count"}
    [] OTHER ->
         {"byte_total", "first_message", "last_message", "message_count", "request_count"}

Marshalling(pc) ==
  pc \in {"ws_byte_total", "ws_first_message", "ws_last_message", "ws_message_count",
          "ws_request_count", "ws_write"}

\* From the receipt of the signal to the call of WriteFile, every value the
\* five fields take together is a moment; those that differ from what
\* json.Marshal has loaded so far are dropped, since the object written
\* cannot equal them.
RecordMoments ==
  moments' =
    IF Marshalling(sigPc')
    THEN {m \in moments \cup {Snapshot'} : \A f \in Loaded(sigPc') : m[f] = sBytes'[f]}
    ELSE moments

\* ------------------------------------------------------------ requests
\* The connection of request h is accepted by the serving listener and its
\* goroutine runs tracing, which sets the context's identifier and the
\* response's X-Request-Id, then logging, which defers the access log, and
\* reaches the handler the mux routes the path to: Health for "/_health",
\* Index for every other path.
Accept(h, path, contentType, body, xRequestId, now) ==
  /\ Running
  /\ listener = "serving"
  /\ accepted < MaxRequests
  /\ h = accepted + 1
  /\ handlers[h].pc = "idle"
  /\ handlers' = [handlers EXCEPT ![h] =
       [pc |-> IF path = "/_health" THEN "health" ELSE "rc_load",
        path |-> path, contentType |-> contentType, body |-> body,
        tmp |-> 0, err |-> FALSE, status |-> 0, xRequestId |-> xRequestId,
        requestID |-> RequestID(xRequestId, now),
        header |-> RequestID(xRequestId, now)]]
  /\ accepted' = accepted + 1
  /\ pre' = [pre EXCEPT ![h] = Snapshot]
  /\ UNCHANGED << fields, life, answered, sumMessages, sumBytes, firstSent, firstHead,
                  lastFinal, delivered, moments, logs >>

\* s.RequestCount++ is a load and a store of the shared field.
LoadRequestCount(h) ==
  /\ Running
  /\ handlers[h].pc = "rc_load"
  /\ handlers' = [handlers EXCEPT ![h].tmp = RequestCount, ![h].pc = "rc_store"]
  /\ UNCHANGED << fields, life, history, moments, logs >>

StoreRequestCount(h) ==
  /\ Running
  /\ handlers[h].pc = "rc_store"
  /\ RequestCount' = handlers[h].tmp + 1
  /\ handlers' = [handlers EXCEPT ![h].pc = "read"]
  /\ UNCHANGED << MessageCount, ByteTotal, FirstMessage, LastMessage, life, history >>
  /\ RecordMoments
  /\ UNCHANGED logs

\* if messageCount > 0: where Index goes once the switch has computed
\* messages: to the counters when there is a message, else to the response.
AfterSplit(messages) ==
  IF Len(messages) > 0 THEN "bt_load" ELSE "respond"

\* ioutil.ReadAll returns the whole body: the switch computes messages, a
\* local value, and Index goes on to the counters.
ReadBody(h) ==
  /\ Running
  /\ handlers[h].pc = "read"
  /\ handlers' = [handlers EXCEPT
       ![h].pc = AfterSplit(Messages(handlers[h].contentType, handlers[h].body))]
  /\ UNCHANGED << fields, life, history, moments, logs >>

\* The error branch without its return: 400 is written and Index goes on to
\* the switch and the counters.
ReadBodyErrorNoReturn(h) ==
  /\ Running
  /\ handlers[h].pc = "read"
  /\ handlers' = [handlers EXCEPT
       ![h].pc = AfterSplit(Messages(handlers[h].contentType, handlers[h].body)),
       ![h].err = TRUE, ![h].status = StatusBadRequest]
  /\ UNCHANGED << fields, life, history, moments, logs >>

\* ioutil.ReadAll returns an error: http.Error writes 400 and Index returns.
ReadBodyError(h) ==
  /\ Running
  /\ handlers[h].pc = "read"
  /\ handlers' = [handlers EXCEPT
       ![h].pc = "done", ![h].err = TRUE, ![h].status = StatusBadRequest]
  /\ answered' = answered + 1
  /\ UNCHANGED << fields, life, accepted, pre, sumMessages, sumBytes, firstSent, firstHead,
                  lastFinal, delivered, moments, logs >>

\* s.ByteTotal = s.ByteTotal + int64(byteLen)
LoadByteTotal(h) ==
  /\ Running
  /\ handlers[h].pc = "bt_load"
  /\ handlers' = [handlers EXCEPT ![h].tmp = ByteTotal, ![h].pc = "bt_store"]
  /\ UNCHANGED << fields, life, history, moments, logs >>

StoreByteTotal(h) ==
  /\ Running
  /\ handlers[h].pc = "bt_store"
  /\ ByteTotal' = handlers[h].tmp + Len(handlers[h].body)
  /\ handlers' = [handlers EXCEPT ![h].pc = "mc_load"]
  /\ UNCHANGED << RequestCount, MessageCount, FirstMessage, LastMessage, life, history >>
  /\ RecordMoments
  /\ UNCHANGED logs

\* s.MessageCount = s.MessageCount + int64(messageCount)
LoadMessageCount(h) ==
  /\ Running
  /\ handlers[h].pc = "mc_load"
  /\ handlers' = [handlers EXCEPT ![h].tmp = MessageCount, ![h].pc = "mc_store"]
  /\ UNCHANGED << fields, life, history, moments, logs >>

StoreMessageCount(h) ==
  /\ Running
  /\ handlers[h].pc = "mc_store"
  /\ MessageCount' = handlers[h].tmp
                     + Len(Messages(handlers[h].contentType, handlers[h].body))
  /\ handlers' = [handlers EXCEPT ![h].pc = "fm_test"]
  /\ UNCHANGED << RequestCount, ByteTotal, FirstMessage, LastMessage, life, history >>
  /\ RecordMoments
  /\ UNCHANGED logs

\* The condition without its test of the field: every non-empty first
\* message is stored.
SetsFirstMessageAlways(current, firstMessage) ==
  firstMessage # << >>

\* The condition under which Index stores FirstMessage, for the value of the
\* field it loads and the first message of the request.
SetsFirstMessage(current, firstMessage) ==
  current = << >> /\ firstMessage # << >>

\* The store of LastMessage without its condition.
SetsLastMessageAlways(lastMessage) ==
  TRUE

\* The condition under which Index stores LastMessage.
SetsLastMessage(lastMessage) ==
  lastMessage # << >>

\* if s.FirstMessage == "" && firstMessage != "": the load of the field.
TestFirstMessage(h) ==
  LET messages == Messages(handlers[h].contentType, handlers[h].body)
  IN /\ Running
     /\ handlers[h].pc = "fm_test"
     /\ handlers' = [handlers EXCEPT ![h].pc =
          IF SetsFirstMessage(FirstMessage, messages[1]) THEN "fm_store"
          ELSE IF SetsLastMessage(messages[Len(messages)]) THEN "lm_store"
          ELSE "respond"]
     /\ UNCHANGED << fields, life, history, moments, logs >>

\* s.FirstMessage = messages[0]
StoreFirstMessage(h) ==
  LET messages == Messages(handlers[h].contentType, handlers[h].body)
  IN /\ Running
     /\ handlers[h].pc = "fm_store"
     /\ FirstMessage' = messages[1]
     /\ handlers' = [handlers EXCEPT ![h].pc =
          IF SetsLastMessage(messages[Len(messages)]) THEN "lm_store" ELSE "respond"]
     /\ UNCHANGED << RequestCount, MessageCount, ByteTotal, LastMessage, life, history >>
     /\ RecordMoments
     /\ UNCHANGED logs

\* s.LastMessage = lastMessage
StoreLastMessage(h) ==
  LET messages == Messages(handlers[h].contentType, handlers[h].body)
  IN /\ Running
     /\ handlers[h].pc = "lm_store"
     /\ LastMessage' = messages[Len(messages)]
     /\ handlers' = [handlers EXCEPT ![h].pc = "respond"]
     /\ UNCHANGED << RequestCount, MessageCount, ByteTotal, FirstMessage, life, history >>
     /\ RecordMoments
     /\ UNCHANGED logs

\* w.WriteHeader(http.StatusNoContent) and the newline after it: the
\* request is answered, and the history takes note of what it sent.
Respond(h) ==
  LET body == handlers[h].body
      ingested == ~handlers[h].err /\ handlers[h].contentType \in AllowList
  IN /\ Running
     /\ handlers[h].pc = "respond"
     /\ handlers' = [handlers EXCEPT ![h].pc = "done", ![h].status = StatusNoContent]
     /\ answered' = answered + 1
     /\ sumMessages' = IF ingested THEN sumMessages + NumSegments(body) ELSE sumMessages
     /\ sumBytes' = IF ingested THEN sumBytes + Len(body) ELSE sumBytes
     /\ firstSent' = IF ingested /\ firstSent = << >>
                     THEN FirstNonEmptySegment(body) ELSE firstSent
     /\ firstHead' = IF ingested /\ firstHead = << >> THEN Segment(body, 1) ELSE firstHead
     /\ lastFinal' = IF ingested /\ Segment(body, NumSegments(body)) # << >>
                     THEN Segment(body, NumSegments(body)) ELSE lastFinal
     /\ UNCHANGED << fields, life, accepted, pre, delivered, moments, logs >>

\* The Health handler: an atomic load of healthy and the status it gives.
Health(h) ==
  /\ Running
  /\ handlers[h].pc = "health"
  /\ handlers' = [handlers EXCEPT ![h].pc = "done", ![h].status = HealthStatus(healthy)]
  /\ UNCHANGED << fields, life, history, moments, logs >>

\* logging without its deferred function: the handler returns and nothing
\* is logged.
LogRequestSkipped(h) ==
  /\ Running
  /\ handlers[h].pc = "done"
  /\ handlers' = [handlers EXCEPT ![h].pc = "logged"]
  /\ UNCHANGED << fields, life, history, moments, logs >>

\* The inner handler has returned: the deferred function of logging reads
\* the identifier from the request context and writes the access-log entry.
LogRequest(h) ==
  /\ Running
  /\ handlers[h].pc = "done"
  /\ accessLog' = Append(accessLog,
       [request |-> h, requestID |-> handlers[h].requestID, path |-> handlers[h].path])
  /\ handlers' = [handlers EXCEPT ![h].pc = "logged"]
  /\ UNCHANGED << fields, life, history, moments, reportLog >>

\* The middleware has returned and the response is written: the connection
\* goes idle.
Finish(h) ==
  /\ Running
  /\ handlers[h].pc = "logged"
  /\ handlers' = [handlers EXCEPT ![h] = [NoRequest EXCEPT !.pc = "finished"]]
  /\ pre' = [pre EXCEPT ![h] = NoSummary]
  /\ UNCHANGED << fields, life, accepted, answered, sumMessages, sumBytes, firstSent,
                  firstHead, lastFinal, delivered, moments, logs >>

\* ------------------------------------------------------------ lifecycle
Signals == {"SIGTERM", "SIGINT"}

\* NewServer without its os.Remove: a file left by an earlier run stays.
NewServerKeepsFile ==
  /\ Running
  /\ mainPc = "new"
  /\ mainPc' = "notify_term"
  /\ UNCHANGED << fields, handlers, history, healthy, sigPc, notified, listener,
                  inShutdown, sBytes, file, exited >>
  /\ UNCHANGED << moments, logs >>

\* NewServer: os.Remove(summaryPath), then the server and its routes.
NewServer ==
  /\ Running
  /\ mainPc = "new"
  /\ file' = [state |-> "absent", content |-> NoSummary]
  /\ mainPc' = "notify_term"
  /\ UNCHANGED << fields, handlers, history, healthy, sigPc, notified, listener,
                  inShutdown, sBytes, exited >>
  /\ UNCHANGED << moments, logs >>

\* signal.Notify(gracefulStop, syscall.SIGTERM)
NotifyTerm ==
  /\ Running
  /\ mainPc = "notify_term"
  /\ notified' = notified \cup {"SIGTERM"}
  /\ mainPc' = "notify_int"
  /\ UNCHANGED << fields, handlers, history, healthy, sigPc, listener, inShutdown,
                  sBytes, file, exited >>
  /\ UNCHANGED << moments, logs >>

\* signal.Notify(gracefulStop, syscall.SIGINT)
NotifyInt ==
  /\ Running
  /\ mainPc = "notify_int"
  /\ notified' = notified \cup {"SIGINT"}
  /\ mainPc' = "go_shutdown"
  /\ UNCHANGED << fields, handlers, history, healthy, sigPc, listener, inShutdown,
                  sBytes, file, exited >>
  /\ UNCHANGED << moments, logs >>

\* go func() { sig := <-gracefulStop ... }(): the goroutine is created.
GoShutdown ==
  /\ Running
  /\ mainPc = "go_shutdown"
  /\ sigPc' = "spawned"
  /\ mainPc' = "go_reporter"
  /\ UNCHANGED << fields, handlers, history, healthy, notified, listener, inShutdown,
                  sBytes, file, exited >>
  /\ RecordMoments
  /\ UNCHANGED logs

\* time.NewTicker, make(chan struct{}) and the go statement of the
\* reporter: the ticker goroutine is created.
GoReporter ==
  /\ Running
  /\ mainPc = "go_reporter"
  /\ mainPc' = "store_healthy"
  /\ UNCHANGED << fields, handlers, history, healthy, sigPc, notified, listener,
                  inShutdown, sBytes, file, exited >>
  /\ UNCHANGED << moments, logs >>

\* case <-ticker.C: five seconds have passed and the goroutine logs the
\* values it loads from MessageCount and RequestCount.  The other case of the
\* select never happens: nothing sends on quit.
Report ==
  /\ Running
  /\ ReporterRuns
  /\ Len(reportLog) < MaxReports
  /\ reportLog' = Append(reportLog, [messages |-> MessageCount, requests |-> RequestCount])
  /\ UNCHANGED << fields, handlers, life, history, moments, accessLog >>

\* The statement of the main goroutine without its effect: healthy stays 0.
StoreHealthySkipped ==
  /\ Running
  /\ mainPc = "store_healthy"
  /\ mainPc' = "listen"
  /\ UNCHANGED << fields, handlers, history, healthy, sigPc, notified, listener,
                  inShutdown, sBytes, file, exited >>
  /\ UNCHANGED << moments, logs >>

\* atomic.StoreInt32(&healthy, 1)
StoreHealthy ==
  /\ Running
  /\ mainPc = "store_healthy"
  /\ healthy' = 1
  /\ mainPc' = "listen"
  /\ UNCHANGED << fields, handlers, history, sigPc, notified, listener, inShutdown,
                  sBytes, file, exited >>
  /\ UNCHANGED << moments, logs >>

\* s.server.ListenAndServe() binds the address and serves.
ListenAndServe ==
  /\ Running
  /\ mainPc = "listen"
  /\ ~inShutdown
  /\ listener' = "serving"
  /\ mainPc' = "serving"
  /\ UNCHANGED << fields, handlers, history, healthy, sigPc, notified, inShutdown,
                  sBytes, file, exited >>
  /\ UNCHANGED << moments, logs >>

\* ListenAndServe fails to bind: s.logger.Fatalf exits with status 1.
ListenFails ==
  /\ Running
  /\ mainPc = "listen"
  /\ ~inShutdown
  /\ exited' = "exit1"
  /\ UNCHANGED << fields, handlers, history, healthy, mainPc, sigPc, notified, listener,
                  inShutdown, sBytes, file >>
  /\ UNCHANGED << moments, logs >>

\* ListenAndServe returns http.ErrServerClosed, at once when Shutdown was
\* called before it and else when Shutdown closes the listener: Listen returns.
ListenReturns ==
  /\ Running
  /\ mainPc \in {"listen", "serving"}
  /\ inShutdown
  /\ mainPc' = "returned"
  /\ UNCHANGED << fields, handlers, history, healthy, sigPc, notified, listener,
                  inShutdown, sBytes, file, exited >>
  /\ UNCHANGED << moments, logs >>

\* The caller of Listen returns from main once Listen has returned: the
\* process ends with status 0, whatever its goroutines are doing.
MainReturns ==
  /\ Running
  /\ mainPc = "returned"
  /\ exited' = "exit0"
  /\ UNCHANGED << fields, handlers, history, healthy, mainPc, sigPc, notified, listener,
                  inShutdown, sBytes, file >>
  /\ UNCHANGED << moments, logs >>

\* The shutdown goroutine blocks in sig := <-gracefulStop.
AwaitSignal ==
  /\ Running
  /\ sigPc = "spawned"
  /\ sigPc' = "recv"
  /\ UNCHANGED << fields, handlers, history, healthy, mainPc, notified, listener,
                  inShutdown, sBytes, file, exited >>
  /\ RecordMoments
  /\ UNCHANGED logs

\* The operating system delivers sig.  A signal Notify was not called for
\* has its default effect and ends the process.  One it was called for is sent
\* on gracefulStop without blocking: the channel has no buffer, so the signal
\* is received if the goroutine is blocked in the receive and dropped if not.
Signal(sig) ==
  /\ Running
  /\ \/ /\ sig \notin notified
        /\ exited' = "killed"
        /\ UNCHANGED sigPc
     \/ /\ sig \in notified
        /\ sigPc = "recv"
        /\ sigPc' = "ws_byte_total"
        /\ UNCHANGED exited
     \/ /\ sig \in notified
        /\ sigPc # "recv"
        /\ UNCHANGED << sigPc, exited >>
  /\ delivered' = (delivered \/ sig \in notified)
  /\ UNCHANGED << fields, handlers, accepted, pre, answered, sumMessages, sumBytes,
                  firstSent, firstHead, lastFinal, healthy, mainPc, notified, listener,
                  inShutdown, sBytes, file >>
  /\ RecordMoments
  /\ UNCHANGED logs

\* WriteSummary: json.Marshal(s) loads the exported fields one after the
\* other, in the order the struct declares them.
MarshalByteTotal ==
  /\ Running
  /\ sigPc = "ws_byte_total"
  /\ sBytes' = [sBytes EXCEPT !.byte_total = ByteTotal]
  /\ sigPc' = "ws_first_message"
  /\ UNCHANGED << fields, handlers, history, healthy, mainPc, notified, listener,
                  inShutdown, file, exited >>
  /\ RecordMoments
  /\ UNCHANGED logs

MarshalFirstMessage ==
  /\ Running
  /\ sigPc = "ws_first_message"
  /\ sBytes' = [sBytes EXCEPT !.first_message = FirstMessage]
  /\ sigPc' = "ws_last_message"
  /\ UNCHANGED << fields, handlers, history, healthy, mainPc, notified, listener,
                  inShutdown, file, exited >>
  /\ RecordMoments
  /\ UNCHANGED logs

MarshalLastMessage ==
  /\ Running
  /\ sigPc = "ws_last_message"
  /\ sBytes' = [sBytes EXCEPT !.last_message = LastMessage]
  /\ sigPc' = "ws_message_count"
  /\ UNCHANGED << fields, handlers, history, healthy, mainPc, notified, listener,
                  inShutdown, file, exited >>
  /\ RecordMoments
  /\ UNCHANGED logs

MarshalMessageCount ==
  /\ Running
  /\ sigPc = "ws_message_count"
  /\ sBytes' = [sBytes EXCEPT !.message_count = MessageCount]
  /\ sigPc' = "ws_request_count"
  /\ UNCHANGED << fields, handlers, history, healthy, mainPc, notified, listener,
                  inShutdown, file, exited >>
  /\ RecordMoments
  /\ UNCHANGED logs

MarshalRequestCount ==
  /\ Running
  /\ sigPc = "ws_request_count"
  /\ sBytes' = [sBytes EXCEPT !.request_count = RequestCount]
  /\ sigPc' = "ws_write"
  /\ UNCHANGED << fields, handlers, history, healthy, mainPc, notified, listener,
                  inShutdown, file, exited >>
  /\ RecordMoments
  /\ UNCHANGED logs

\* WriteSummary going on to return with no file written.
WriteFileSkipped ==
  /\ Running
  /\ sigPc = "ws_write"
  /\ sigPc' = "keepalives"
  /\ UNCHANGED << fields, handlers, history, healthy, mainPc, notified, listener,
                  inShutdown, sBytes, file, exited >>
  /\ RecordMoments
  /\ UNCHANGED logs

\* ioutil.WriteFile(summaryPath, sBytes, 0644) succeeds.
WriteFile ==
  /\ Running
  /\ sigPc = "ws_write"
  /\ file' = [state |-> "written", content |-> sBytes]
  /\ sigPc' = "keepalives"
  /\ UNCHANGED << fields, handlers, history, healthy, mainPc, notified, listener,
                  inShutdown, sBytes, exited >>
  /\ RecordMoments
  /\ UNCHANGED logs

\* ioutil.WriteFile fails, before it created the file or after it truncated
\* it: log.Fatal exits with status 1.
WriteFileFails ==
  /\ Running
  /\ sigPc = "ws_write"
  /\ file' \in {file, [state |-> "partial", content |-> NoSummary]}
  /\ exited' = "exit1"
  /\ UNCHANGED << fields, handlers, history, healthy, mainPc, sigPc, notified, listener,
                  inShutdown, sBytes >>
  /\ UNCHANGED << moments, logs >>

\* s.server.SetKeepAlivesEnabled(false)
DisableKeepAlives ==
  /\ Running
  /\ sigPc = "keepalives"
  /\ sigPc' = "shutdown"
  /\ UNCHANGED << fields, handlers, history, healthy, mainPc, notified, listener,
                  inShutdown, sBytes, file, exited >>
  /\ RecordMoments
  /\ UNCHANGED logs

\* s.server.Shutdown(ctx) marks the server as shutting down and closes the
\* listener; it then waits for the connections to go idle.
Shutdown ==
  /\ Running
  /\ sigPc = "shutdown"
  /\ inShutdown' = TRUE
  /\ listener' = IF listener = "serving" THEN "closed" ELSE listener
  /\ sigPc' = "draining"
  /\ UNCHANGED << fields, handlers, history, healthy, mainPc, notified, sBytes, file,
                  exited >>
  /\ RecordMoments
  /\ UNCHANGED logs

\* Shutdown returns nil once no connection is active: "Server stopped" is
\* logged and os.Exit(0) ends the process.
ShutdownReturns ==
  /\ Running
  /\ sigPc = "draining"
  /\ \A h \in Handlers : ~InFlight(h)
  /\ sigPc' = "stopped"
  /\ exited' = "exit0"
  /\ UNCHANGED << fields, handlers, history, healthy, mainPc, notified, listener,
                  inShutdown, sBytes, file >>
  /\ RecordMoments
  /\ UNCHANGED logs

\* The 30 seconds of ctx pass with a connection still active: Shutdown
\* returns ctx.Err() and s.logger.Fatalf exits with status 1.
ShutdownTimesOut ==
  /\ Running
  /\ sigPc = "draining"
  /\ \E h \in Handlers : InFlight(h)
  /\ exited' = "exit1"
  /\ UNCHANGED << fields, handlers, history, healthy, mainPc, sigPc, notified, listener,
                  inShutdown, sBytes, file >>
  /\ UNCHANGED << moments, logs >>

\* ------------------------------------------------------------ specifications
\* The requests clients send one at a time: any body under any content type
\* to the ingestion route, and the health probe.
Requests ==
  {<< "/", contentType, body, "abc" >> : contentType \in ContentTypes, body \in Bodies}
    \cup {<< "/_health", "", << >>, "abc" >>}

\* The requests clients send concurrently: two bodies whose first messages
\* differ and a body that begins with an empty message, under a content type
\* the switch splits, and the health probe.
ConcurrentRequests ==
  {<< "/", "text/plain", body, "abc" >> : body \in {<< "a" >>, << "a", "a" >>, << NL, "a" >>}}
    \cup {<< "/_health", "", << >>, "abc" >>}

\* The requests clients send while the server is started and shut down.
ShutdownRequests ==
  {<< "/", "text/plain", << "a" >>, "abc" >>, << "/_health", "", << >>, "abc" >>}

\* The requests clients send to either route with and without an
\* X-Request-Id.
TracedRequests ==
  {<< r[1], r[2], r[3], xRequestId >> : r \in ShutdownRequests, xRequestId \in InboundIds}

HandlerStep(h) ==
  \/ LoadRequestCount(h) \/ StoreRequestCount(h)
  \/ ReadBody(h) \/ ReadBodyError(h)
  \/ LoadByteTotal(h) \/ StoreByteTotal(h)
  \/ LoadMessageCount(h) \/ StoreMessageCount(h)
  \/ TestFirstMessage(h) \/ StoreFirstMessage(h) \/ StoreLastMessage(h)
  \/ Respond(h) \/ Health(h) \/ LogRequest(h) \/ Finish(h)

Startup ==
  \/ NewServer \/ NotifyTerm \/ NotifyInt \/ GoShutdown \/ GoReporter \/ StoreHealthy
  \/ ListenAndServe \/ ListenFails

\* What the main goroutine does once Shutdown has been called.
MainStops == ListenReturns \/ MainReturns

ShutdownStep ==
  \/ AwaitSignal
  \/ MarshalByteTotal \/ MarshalFirstMessage \/ MarshalLastMessage
  \/ MarshalMessageCount \/ MarshalRequestCount
  \/ WriteFile \/ WriteFileFails
  \/ DisableKeepAlives \/ Shutdown \/ ShutdownReturns \/ ShutdownTimesOut

\* The whole life of the process: startup, requests (one in flight at a
\* time, running concurrently with the main and the shutdown goroutines),
\* signals and the shutdown they start.
Next ==
  \/ \E h \in Handlers, r \in ShutdownRequests, now \in Times :
       /\ \A g \in Handlers : ~InFlight(g)
       /\ Accept(h, r[1], r[2], r[3], r[4], now)
  \/ \E h \in Handlers : HandlerStep(h)
  \/ Startup
  \/ MainStops
  \/ Report
  \/ ShutdownStep
  \/ \E sig \in Signals : Signal(sig)

Spec == Init /\ [][Next]_vars

\* The server under concurrent load, before any termination signal: a
\* request is accepted whenever the listener serves, whatever the other
\* handlers are doing.
ConcurrentNext ==
  \/ \E h \in Handlers, r \in ConcurrentRequests, now \in Times :
       Accept(h, r[1], r[2], r[3], r[4], now)
  \/ \E h \in Handlers : HandlerStep(h)
  \/ Startup

ConcurrentSpec == Init /\ [][ConcurrentNext]_vars

\* The server before any termination signal, with its requests handled one
\* at a time: a request is accepted only when no handler is in flight.
SeqNext ==
  \/ \E h \in Handlers, r \in Requests, now \in Times :
       /\ \A g \in Handlers : ~InFlight(g)
       /\ Accept(h, r[1], r[2], r[3], r[4], now)
  \/ \E h \in Handlers : HandlerStep(h)
  \/ Startup

SeqSpec == Init /\ [][SeqNext]_vars

\* The server before any termination signal, under requests handled one at
\* a time that differ in their X-Request-Id and meet different readings of
\* the clock.
TracedNext ==
  \/ \E h \in Handlers, r \in TracedRequests, now \in Times :
       /\ \A g \in Handlers : ~InFlight(g)
       /\ Accept(h, r[1], r[2], r[3], r[4], now)
  \/ \E h \in Handlers : HandlerStep(h)
  \/ Startup

TracedSpec == Init /\ [][TracedNext]_vars

\* ------------------------------------------------------------ claims
\* The handler of h writes its response in this step.
Answers(h) == handlers[h].pc # "done" /\ handlers'[h].pc = "done"

\* An ingestion request that Index has answered and whose connection is not
\* yet idle: the state right after the handler.
Handled(h) == handlers[h].pc = "done" /\ handlers[h].path # "/_health"

\* No handler is between its first and its last step.
Settled == \A h \in Handlers : handlers[h].pc \in {"idle", "done", "logged", "finished"}

\* C1: after an ingestion request with an allow-listed Content-Type, handled
\* with no other handler interleaved and its body read, MessageCount has
\* grown by the number of newline-separated segments of the body (empty ones
\* included, an empty body being one segment) and ByteTotal by the length
\* of the body.
C1_AllowListedCounts ==
  \A h \in Handlers :
    Handled(h) /\ ~handlers[h].err /\ handlers[h].contentType \in AllowList
      => /\ MessageCount = pre[h].message_count + NumSegments(handlers[h].body)
         /\ ByteTotal = pre[h].byte_total + Len(handlers[h].body)

C1_Witness ==
  \E g, h \in Handlers :
    /\ Handled(g) /\ handlers[g].contentType = "application/x-ndjson"
    /\ handlers[g].body = << NL, "a" >>
    /\ pre[g].message_count = 1 /\ MessageCount = 3 /\ ByteTotal = 2
    /\ handlers[h].pc = "finished"

\* C2: after an ingestion request whose Content-Type is not allow-listed (a
\* missing one included), whatever the body, MessageCount, ByteTotal,
\* FirstMessage and LastMessage are what they were before it, and the
\* response to a body that was read is 204.
C2_OtherTypesChangeNothing ==
  \A h \in Handlers :
    Handled(h) /\ handlers[h].contentType \notin AllowList
      => /\ MessageCount = pre[h].message_count
         /\ ByteTotal = pre[h].byte_total
         /\ FirstMessage = pre[h].first_message
         /\ LastMessage = pre[h].last_message
         /\ ~handlers[h].err => handlers[h].status = 204

C2_Witness ==
  \E h \in Handlers :
    /\ Handled(h) /\ handlers[h].contentType = "" /\ handlers[h].body = << "a", NL >>
    /\ handlers[h].status = 204
    /\ pre[h].message_count = 1 /\ MessageCount = 1 /\ RequestCount = 2

\* C3, as claimed: after requests handled one at a time, FirstMessage is the
\* first non-empty segment sent under an allow-listed content type since the
\* server started (so "first" after the one body "\nfirst").
C3_FirstNonEmptySegmentEverSent ==
  Settled => FirstMessage = firstSent

\* C3, amended: after requests handled one at a time, FirstMessage is the
\* first segment of the earliest allow-listed request whose body was read
\* and begins with a non-empty segment, and is empty when there was none: a
\* body that begins with a newline does not set it.
C3_FirstSegmentOfEarliestRequest ==
  Settled => FirstMessage = firstHead

C3_Witness ==
  /\ Settled
  /\ firstSent = << "a" >>
  /\ FirstMessage = << "a", "a" >>
  /\ \E h \in Handlers : handlers[h].pc = "finished"
  /\ \E h \in Handlers : Handled(h) /\ handlers[h].body = << "a", "a" >>

\* C5: after requests handled one at a time, LastMessage is the final
\* segment of the latest allow-listed request answered whose final segment is
\* non-empty, and a request whose final segment is empty (an empty body, a
\* body that ends in a newline) leaves LastMessage as it was.
C5_LastMessage ==
  /\ Settled => LastMessage = lastFinal
  /\ \A h \in Handlers :
       /\ Handled(h) /\ ~handlers[h].err /\ handlers[h].contentType \in AllowList
       /\ \/ handlers[h].body = << >>
          \/ handlers[h].body[Len(handlers[h].body)] = NL
       => LastMessage = pre[h].last_message

C5_Witness ==
  \E h \in Handlers :
    /\ Handled(h) /\ handlers[h].contentType = "application/json"
    /\ handlers[h].body = << "a", NL >>
    /\ pre[h].last_message = << "a", "a" >>
    /\ LastMessage = << "a", "a" >>
    /\ MessageCount = 3

\* C6, as claimed: when the body cannot be read the response is 400 and none
\* of the five fields differs from its value before the request.
C6_ReadErrorTouchesNothing ==
  \A h \in Handlers :
    Handled(h) /\ handlers[h].err
      => handlers[h].status = 400 /\ Snapshot = pre[h]

\* C6, amended: when the body cannot be read the response is 400,
\* MessageCount, ByteTotal, FirstMessage and LastMessage are what they were
\* before the request, and RequestCount is one more.
C6_ReadErrorCountsTheRequest ==
  \A h \in Handlers :
    Handled(h) /\ handlers[h].err
      => /\ handlers[h].status = 400
         /\ MessageCount = pre[h].message_count
         /\ ByteTotal = pre[h].byte_total
         /\ FirstMessage = pre[h].first_message
         /\ LastMessage = pre[h].last_message
         /\ RequestCount = pre[h].request_count + 1

C6_Witness ==
  \E h \in Handlers :
    /\ Handled(h) /\ handlers[h].err /\ handlers[h].status = 400
    /\ handlers[h].contentType = "text/plain" /\ handlers[h].body = << "a", "a" >>
    /\ pre[h].request_count = 1 /\ RequestCount = 2
    /\ MessageCount = 2 /\ FirstMessage = << "a" >>

\* C4: FirstMessage is sticky under any interleaving of concurrent handlers:
\* once it holds a non-empty value, no step changes it.
C4_FirstMessageSticky ==
  [][FirstMessage # << >> => FirstMessage' = FirstMessage]_vars

\* C7: no counter update of concurrent handlers is lost: once every ingestion
\* request accepted has been answered, RequestCount is the number of those
\* requests, and MessageCount and ByteTotal are the sums of their segment
\* counts and body lengths.
C7_NoLostUpdate ==
  Settled => /\ RequestCount = answered
             /\ MessageCount = sumMessages
             /\ ByteTotal = sumBytes

\* C8: Health answers 503 for a flag that is not ready and 204 for a ready
\* one, and the flag is monotonic: no step of the process, the steps of the
\* shutdown included, takes healthy from 1 back to 0.
C8_HealthMonotonic ==
  [][/\ healthy = 1 => healthy' = 1
     /\ \A h \in Handlers :
          Answers(h) /\ handlers[h].path = "/_health"
            => handlers'[h].status = IF healthy = 1 THEN 204 ELSE 503
     /\ HealthStatus(0) = 503 /\ HealthStatus(1) = 204]_vars

C8_Witness ==
  \E h \in Handlers :
    /\ handlers[h].pc = "done" /\ handlers[h].path = "/_health"
    /\ handlers[h].status = 204
    /\ healthy = 1
    /\ sigPc = "draining"

\* The shutdown goroutine has received a signal.
Received == sigPc \notin {"unspawned", "spawned", "recv"}

\* WriteSummary has returned: the goroutine is at or past
\* SetKeepAlivesEnabled(false).
PastWriteSummary == sigPc \in {"keepalives", "shutdown", "draining", "stopped"}

\* The summary is written before the listener is told to stop: WriteSummary
\* has returned only with the file written, and with no file written the
\* server is not shutting down and its listener is not closed.
WrittenBeforeStop ==
  /\ PastWriteSummary => file.state = "written" /\ file.content = sBytes
  /\ file.state # "written" => ~inShutdown /\ listener # "closed"

C10_ConsistentSnapshot ==
  file.state = "written" => file.content \in moments

\* C11: when the 30 seconds of the drain pass with requests still in
\* flight, the process ends with status 0: whenever the process has ended
\* with the shutdown goroutine waiting in Shutdown and a request in flight,
\* its status is 0.
C11_DrainTimeoutExitsZero ==
  ~Running /\ sigPc = "draining" /\ (\E h \in Handlers : InFlight(h))
    => exited = "exit0"

\* The state of the lifecycle machine: Starting until the listener is bound,
\* Ready once it serves, Draining from the receipt of a signal, Stopped once
\* the process has exited with status 0; Failed is an end by a fatal error
\* or by a signal's default effect, which the machine does not describe.
Lifecycle ==
  CASE exited = "exit0" -> "Stopped"
    [] exited \in {"exit1", "killed"} -> "Failed"
    [] Running /\ Received -> "Draining"
    [] Running /\ ~Received /\ listener = "serving" -> "Ready"
    [] OTHER -> "Starting"

\* C12: every step that changes the lifecycle state goes from Starting to
\* Ready, from Ready to Draining or from Draining to Stopped (or ends the
\* process by a fatal error): no state is skipped, none is gone back to, and a
\* signal that arrives before the listener is bound does not take Starting
\* to Draining.
C12_LifecycleOrder ==
  [][\/ Lifecycle' = Lifecycle
     \/ Lifecycle' = "Failed"
     \/ << Lifecycle, Lifecycle' >> \in
          {<< "Starting", "Ready" >>, << "Ready", "Draining" >>,
           << "Draining", "Stopped" >>}]_vars

C14_RequestIdEchoed ==
  \A h \in Handlers :
    InFlight(h) =>
      /\ handlers[h].xRequestId # "" => handlers[h].header = handlers[h].xRequestId
      /\ handlers[h].xRequestId = "" => handlers[h].header \in {"1", "2"}
      /\ handlers[h].requestID = handlers[h].header
      /\ \A i \in 1..Len(accessLog) :
           accessLog[i].request = h => accessLog[i].requestID = handlers[h].header

C14_Witness ==
  \E h \in Handlers :
    /\ handlers[h].pc = "logged" /\ handlers[h].path = "/"
    /\ handlers[h].xRequestId = "" /\ handlers[h].header = "2"
    /\ Len(accessLog) = 2
    /\ accessLog[1].requestID = "abc" /\ accessLog[1].path = "/_health"
    /\ accessLog[2].requestID = "2" /\ accessLog[2].request = h

\* C15, as claimed: in every state where healthy is 1 the listener is bound
\* and serving.
C15_ReadyImpliesServing ==
  healthy = 1 => listener = "serving"

\* C15, amended: a listener that is bound (serving, or closed again by
\* Shutdown) implies healthy = 1, and healthy = 1 implies that Listen has
\* reached its call of ListenAndServe: the flag is set right before the bind
\* is attempted, so it is 1 also while the bind has not succeeded, after it
\* has failed and after Shutdown has closed the listener.
C15_ServingImpliesReady ==
  /\ listener # "unbound" => healthy = 1
  /\ healthy = 1 => mainPc \in {"listen", "serving", "returned"}

C15_Witness ==
  /\ healthy = 1
  /\ exited = "exit1" /\ mainPc = "listen" /\ listener = "unbound"
  /\ sigPc = "recv"

\* C16: a SIGTERM or SIGINT delivered once Notify was called for it is
\* not dropped: from its delivery on, the shutdown goroutine has received a
\* signal and is processing it.
C16_NoSignalDropped ==
  delivered => Received

\* C17: the reporter emits no report once the shutdown goroutine has
\* received the signal, and a report changes no field of the Server.
C17_ReporterStopsAtShutdown ==
  [][reportLog' # reportLog => ~Received /\ fields' = fields]_vars

\* C18: when the bind fails the process ends with status 1, the listener was
\* never bound and there is no summary file (the states where WriteSummary
\* is at its write are left out: an exit there may be the write's failure).
C18_BindFailurePersistsNothing ==
  exited = "exit1" /\ mainPc = "listen" /\ sigPc # "ws_write"
    => listener = "unbound" /\ file.state = "absent"

\* The access-log entries of request h.
Entries(h) == {i \in 1..Len(accessLog) : accessLog[i].request = h}

\* C19: on every route and for every outcome of the handler, the access log
\* has no entry of a request whose inner handler has not returned, and
\* exactly one once logging has run after it.
C19_OneAccessLogEntry ==
  \A h \in Handlers :
    Cardinality(Entries(h)) = IF handlers[h].pc \in {"logged", "finished"} THEN 1 ELSE 0

C19_Witness ==
  \E g, h \in Handlers :
    /\ handlers[g].pc = "finished" /\ Cardinality(Entries(g)) = 1
    /\ accessLog[1].path = "/_health"
    /\ handlers[h].pc = "logged" /\ handlers[h].status = 400
    /\ Entries(h) = {2}

\* C20: RequestCount, MessageCount and ByteTotal never decrease: no step
\* of concurrent handlers lowers any of the three.
C20_CountersMonotonic ==
  [][/\ RequestCount' >= RequestCount
     /\ MessageCount' >= MessageCount
     /\ ByteTotal' >= ByteTotal]_vars

====
